---- MODULE Spec2Model ----
(***************************************************************************)
(* Model of src/src/components/EnrollmentModal.tsx: the enrollment modal   *)
(* as a state machine.  The React state hooks are the variables; every     *)
(* event handler is one action; every await splits an async handler into   *)
(* the part before the await and the continuation, which runs later with   *)
(* the values its closure captured when the handler was invoked.           *)
(***************************************************************************)
EXTENDS Integers, FiniteSets, Sequences, TLC

\* ---- bounds ----
MaxPrice == 2        \* the dearest catalog price
MaxSessions == 2     \* how many times the parent opens the modal
MaxPay == 2          \* how many times handlePayment starts a payment attempt

\* ---- values ----
NULL == "null"       \* null / undefined of a string-valued field
NoId == 0            \* null / undefined of an id or url
NoPrice == -1        \* undefined of a price

Courses == {"c1", "c2"}

\* masterclass_page_content.course_price of each course: one paid, one free
course_price(c) == IF c = "c1" THEN MaxPrice ELSE 0

\* strings a text input can hold: empty, whitespace only, a proper value
trim(s) == IF s = " " THEN "" ELSE s

toUpperCase(s) == CASE s = "a" -> "A" [] s = "b" -> "B" [] OTHER -> s

\* useAuth(): the profile of the signed-in user (name already split on ' ')
ProfileOf(u) == IF u = NULL THEN <<>>
                ELSE <<[name |-> <<"Ann", "Lee">>, email |-> "a@x"]>>

VARIABLES
  isOpen, course, user,                       \* props and useAuth()
  step, formData, coursePrice, paymentMethod, \* useState hooks
  errorMessage, enrollmentId,
  promoCode, promoValidating, promoError, promoDiscount, finalPrice,
  priceFetches,      \* catalog queries in flight
  promoCalls,        \* validatePromoCode calls in flight
  payFlows,          \* handlePayment invocations suspended at an await
  timers,            \* pending success timers (setTimeout 2000)
  pendingEnrollment, \* sessionStorage['pendingEnrollment']
  locationHref,      \* window.location.href once assigned
  session, nextPay,  \* counters: opens so far, handlePayment calls so far
  closeRequested     \* the last event was a click on a close button

stateVars == <<step, formData, coursePrice, paymentMethod, errorMessage,
               enrollmentId, promoCode, promoValidating, promoError,
               promoDiscount, finalPrice>>
promoVars == <<promoCode, promoValidating, promoError, promoDiscount>>
propVars == <<isOpen, course, user, session>>
asyncVars == <<priceFetches, promoCalls, payFlows, timers, nextPay>>
outVars == <<pendingEnrollment, locationHref>>
vars == <<isOpen, course, user, session, stateVars, priceFetches, promoCalls,
          payFlows, timers, nextPay, outVars, closeRequested>>

\* the initial value of formData, also what handleClose resets it to
DefaultFormData(u) ==
  LET p == ProfileOf(u) IN
  [firstName |-> IF p # <<>> /\ Len(p[1].name) >= 1 THEN p[1].name[1] ELSE "",
   lastName |-> IF p # <<>> /\ Len(p[1].name) >= 2 THEN p[1].name[2] ELSE "",
   email |-> IF p # <<>> THEN p[1].email ELSE "",
   phoneNumber |-> "",
   acceptTerms |-> FALSE]

\* the component is mounted with isOpen false
Init ==
  /\ isOpen = FALSE
  /\ course \in Courses
  /\ user \in {NULL, "u1"}
  /\ session = 0
  /\ step = "details"
  /\ formData = DefaultFormData(user)
  /\ coursePrice = 0
  /\ paymentMethod = "eversend"
  /\ errorMessage = NULL
  /\ enrollmentId = NoId
  /\ promoCode = ""
  /\ promoValidating = FALSE
  /\ promoError = NULL
  /\ promoDiscount = <<>>
  /\ finalPrice = 0
  /\ priceFetches = {}
  /\ promoCalls = {}
  /\ payFlows = {}
  /\ timers = {}
  /\ nextPay = 1
  /\ pendingEnrollment = <<>>
  /\ locationHref = NoId
  /\ closeRequested = FALSE

\* Assigning window.location.href unloads the document: the component and
\* everything it awaits are gone, nothing of it runs afterwards.
Loaded == locationHref = NoId

\* the parent's onClose: it hides the modal
onClose == isOpen' = FALSE

\* The parent shows the modal for course c; the price effect runs and
\* starts the catalog query.
Open(c) ==
  /\ Loaded
  /\ ~isOpen
  /\ session < MaxSessions
  /\ isOpen' = TRUE
  /\ course' = c
  /\ session' = session + 1
  /\ priceFetches' = priceFetches \cup {[session |-> session + 1, courseId |-> c]}
  /\ closeRequested' = FALSE
  /\ UNCHANGED <<user, stateVars, promoCalls, payFlows, timers, nextPay,
                 outVars>>

\* The catalog query of fetchCoursePrice returns: r is "data" (a row),
\* "error" (fetchError set or no row) or "throw" (the await rejects).
FetchCoursePriceDone(q, r) ==
  /\ Loaded
  /\ q \in priceFetches
  /\ priceFetches' = priceFetches \ {q}
  /\ CASE r = "data" ->
            /\ coursePrice' = course_price(q.courseId)
            /\ finalPrice' = course_price(q.courseId)
       [] r = "error" ->
            UNCHANGED <<coursePrice, finalPrice>>
       [] r = "throw" ->
            /\ coursePrice' = 0
            /\ finalPrice' = 0
  /\ closeRequested' = FALSE
  /\ UNCHANGED <<propVars, step, formData, paymentMethod, errorMessage,
                 enrollmentId, promoVars, promoCalls, payFlows, timers,
                 nextPay, outVars>>

\* ---- the details form ----
\* handleInputChange: one field of formData is replaced.  The form is
\* rendered in step details; the phone input only when coursePrice > 0.
handleInputChange(name, value) ==
  /\ Loaded
  /\ isOpen
  /\ step = "details"
  /\ name = "phoneNumber" => coursePrice > 0
  /\ formData' = [formData EXCEPT ![name] = value]
  /\ formData' # formData
  /\ closeRequested' = FALSE
  /\ UNCHANGED <<propVars, step, coursePrice, paymentMethod, errorMessage,
                 enrollmentId, promoVars, finalPrice, asyncVars, outVars>>

\* the onChange of the promo code input without the reset of the discount
promoCodeOnChange_KeepDiscount(value) ==
  /\ Loaded
  /\ isOpen
  /\ step = "details"
  /\ coursePrice > 0
  /\ promoCode' = toUpperCase(value)
  /\ promoError' = NULL
  /\ closeRequested' = FALSE
  /\ UNCHANGED <<propVars, step, formData, coursePrice, paymentMethod,
                 errorMessage, enrollmentId, promoValidating, promoDiscount,
                 finalPrice, asyncVars, outVars>>

\* onChange of the promo code input
promoCodeOnChange(value) ==
  /\ Loaded
  /\ isOpen
  /\ step = "details"
  /\ coursePrice > 0
  /\ promoCode' = toUpperCase(value)
  /\ promoError' = NULL
  /\ promoDiscount' = <<>>
  /\ finalPrice' = coursePrice
  /\ closeRequested' = FALSE
  /\ UNCHANGED <<propVars, step, formData, coursePrice, paymentMethod,
                 errorMessage, enrollmentId, promoValidating, asyncVars,
                 outVars>>

\* the Apply button is disabled while promoValidating or with a blank code
ApplyDisabled == promoValidating \/ trim(promoCode) = ""

\* handleValidatePromo up to its await
handleValidatePromo ==
  /\ Loaded
  /\ isOpen
  /\ step = "details"
  /\ coursePrice > 0
  /\ ~ApplyDisabled
  /\ IF trim(promoCode) = ""
       THEN /\ promoError' = "Enter a promo code"
            /\ UNCHANGED <<promoValidating, promoCalls>>
       ELSE /\ promoValidating' = TRUE
            /\ promoError' = NULL
            /\ promoCalls' = promoCalls \cup
                 {[code |-> promoCode, courseId |-> course,
                   coursePrice |-> coursePrice, session |-> session]}
  /\ closeRequested' = FALSE
  /\ UNCHANGED <<propVars, step, formData, coursePrice, paymentMethod,
                 errorMessage, enrollmentId, promoCode, promoDiscount,
                 finalPrice, priceFetches, payFlows, timers, nextPay,
                 outVars>>

\* what validatePromoCode(code, courseId, basePrice) can answer:
\* final_price NoPrice stands for undefined, error NULL for undefined
PromoResults(call) ==
  {[kind |-> "result", valid |-> TRUE, final_price |-> fp, error |-> NULL] :
      fp \in (0 .. call.coursePrice) \cup {NoPrice}}
  \cup {[kind |-> "result", valid |-> FALSE, final_price |-> NoPrice, error |-> e] :
      e \in {NULL, "Promo code expired"}}
  \cup {[kind |-> "reject", valid |-> FALSE, final_price |-> NoPrice, error |-> NULL]}

\* handleValidatePromo after its await: the result of call arrives.  The
\* continuation uses the coursePrice its closure captured.
handleValidatePromoDone(call, result) ==
  /\ Loaded
  /\ call \in promoCalls
  /\ promoCalls' = promoCalls \ {call}
  /\ IF result.kind = "reject"
       THEN UNCHANGED <<promoDiscount, finalPrice, promoError, promoValidating>>
       ELSE /\ IF result.valid /\ result.final_price # NoPrice
                 THEN /\ promoDiscount' =
                           <<[percentage |-> 0,
                              amount |-> call.coursePrice - result.final_price]>>
                      /\ finalPrice' = result.final_price
                      /\ promoError' = NULL
                 ELSE /\ promoError' = IF result.error # NULL THEN result.error
                                       ELSE "Invalid promo code"
                      /\ promoDiscount' = <<>>
                      /\ finalPrice' = call.coursePrice
            /\ promoValidating' = FALSE
  /\ closeRequested' = FALSE
  /\ UNCHANGED <<propVars, step, formData, coursePrice, paymentMethod,
                 errorMessage, enrollmentId, promoCode, priceFetches,
                 payFlows, timers, nextPay, outVars>>

\* validateForm with the phone rule not conditional on the price
validateForm_PhoneAlways(form, price) ==
  IF trim(form.firstName) = "" THEN "First name is required"
  ELSE IF trim(form.email) = "" THEN "Email is required"
  ELSE IF trim(form.phoneNumber) = ""
    THEN "Phone number is required for paid courses"
  ELSE IF ~form.acceptTerms THEN "You must accept the terms and conditions"
  ELSE NULL

\* validateForm: NULL when the form passes, else the message it sets
validateForm(form, price) ==
  IF trim(form.firstName) = "" THEN "First name is required"
  ELSE IF trim(form.email) = "" THEN "Email is required"
  ELSE IF price > 0 /\ trim(form.phoneNumber) = ""
    THEN "Phone number is required for paid courses"
  ELSE IF ~form.acceptTerms THEN "You must accept the terms and conditions"
  ELSE NULL

\* useEnrollment().isLoading: true while an initiateEnrollment call runs
isLoading == \E f \in payFlows : f.pc = "initiate"

\* handlePayment up to its first await (the preflight probe): what it does
\* to errorMessage, payFlows and nextPay
handlePayment ==
  IF user = NULL
    THEN /\ errorMessage' = "User not authenticated"
         /\ UNCHANGED <<payFlows, nextPay>>
    ELSE /\ nextPay <= MaxPay
         /\ errorMessage' = NULL
         /\ payFlows' = payFlows \cup
              {[id |-> nextPay, pc |-> "probe", session |-> session,
                finalPrice |-> finalPrice, courseId |-> course,
                userId |-> user, paymentMethod |-> paymentMethod]}
         /\ nextPay' = nextPay + 1

\* handleProceedToPayment without the fast path of free courses: a valid
\* form always leads to the payment step
handleProceedToPayment_NoFastPath ==
  /\ Loaded
  /\ isOpen
  /\ step = "details"
  /\ IF validateForm(formData, coursePrice) # NULL
       THEN /\ errorMessage' = validateForm(formData, coursePrice)
            /\ UNCHANGED <<step, payFlows, nextPay>>
       ELSE /\ step' = "payment"
            /\ errorMessage' = NULL
            /\ UNCHANGED <<payFlows, nextPay>>
  /\ closeRequested' = FALSE
  /\ UNCHANGED <<propVars, formData, coursePrice, paymentMethod, enrollmentId,
                 promoVars, finalPrice, priceFetches, promoCalls, timers,
                 outVars>>

\* submit of the details form
handleProceedToPayment ==
  /\ Loaded
  /\ isOpen
  /\ step = "details"
  /\ IF validateForm(formData, coursePrice) # NULL
       THEN /\ errorMessage' = validateForm(formData, coursePrice)
            /\ UNCHANGED <<step, payFlows, nextPay>>
       ELSE IF coursePrice = 0
         THEN /\ handlePayment
              /\ UNCHANGED step
         ELSE /\ step' = "payment"
              /\ errorMessage' = NULL
              /\ UNCHANGED <<payFlows, nextPay>>
  /\ closeRequested' = FALSE
  /\ UNCHANGED <<propVars, formData, coursePrice, paymentMethod, enrollmentId,
                 promoVars, finalPrice, priceFetches, promoCalls, timers,
                 outVars>>

\* the Pay Now / Complete Enrollment button of step payment
PayNow ==
  /\ Loaded
  /\ isOpen
  /\ step = "payment"
  /\ ~isLoading
  /\ handlePayment
  /\ closeRequested' = FALSE
  /\ UNCHANGED <<propVars, step, formData, coursePrice, paymentMethod,
                 enrollmentId, promoVars, finalPrice, priceFetches, promoCalls,
                 timers, outVars>>

\* the message of the setup-required failure
SetupRequiredMessage ==
  "Database setup required. Please run the 3 SQL migrations from the database folder first."

\* outcomes of the preflight probe on student_enrollments
ProbeResults == {"ok", "PGRST116", "otherError", "throw"}

\* handlePaymentProbeDone without the return of the PGRST116 branch: the
\* handler falls through to setStep('processing') and initiateEnrollment
handlePaymentProbeDone_NoReturn(f, r) ==
  /\ Loaded
  /\ f \in payFlows
  /\ f.pc = "probe"
  /\ errorMessage' = IF r = "PGRST116" THEN SetupRequiredMessage
                     ELSE errorMessage
  /\ step' = "processing"
  /\ payFlows' = (payFlows \ {f}) \cup
       {[f EXCEPT !.pc = "initiate", !.finalPrice = NoPrice]}
  /\ closeRequested' = FALSE
  /\ UNCHANGED <<propVars, formData, coursePrice, paymentMethod, enrollmentId,
                 promoVars, finalPrice, priceFetches, promoCalls, timers,
                 nextPay, outVars>>

\* handlePayment after the preflight probe of flow f returned r: either the
\* setup-required failure, or setStep('processing') and the call of
\* initiateEnrollment with the finalPrice the closure captured, f.finalPrice.
\* The closure does not read finalPrice after the call, so the suspended
\* flow no longer carries it.
handlePaymentProbeDone(f, r) ==
  /\ Loaded
  /\ f \in payFlows
  /\ f.pc = "probe"
  /\ IF r = "PGRST116"
       THEN /\ errorMessage' = SetupRequiredMessage
            /\ step' = "error"
            /\ payFlows' = payFlows \ {f}
       ELSE /\ step' = "processing"
            /\ payFlows' = (payFlows \ {f}) \cup
                 {[f EXCEPT !.pc = "initiate", !.finalPrice = NoPrice]}
            /\ UNCHANGED errorMessage
  /\ closeRequested' = FALSE
  /\ UNCHANGED <<propVars, formData, coursePrice, paymentMethod, enrollmentId,
                 promoVars, finalPrice, priceFetches, promoCalls, timers,
                 nextPay, outVars>>

\* what initiateEnrollment can answer for flow f: a failure with or without
\* an error text, a success with or without enrollmentId and paymentUrl, or
\* an exception (message NULL: the thrown value is not an Error; message "":
\* an Error constructed without a message)
InitiateResults(f) ==
  {[kind |-> "result", success |-> FALSE, enrollmentId |-> NoId,
    paymentUrl |-> NoId, error |-> e] : e \in {NULL, "", "Provider declined"}}
  \cup {[kind |-> "result", success |-> TRUE, enrollmentId |-> e,
         paymentUrl |-> u, error |-> NULL] :
           e \in {NoId, f.id}, u \in {NoId, f.id}}
  \cup {[kind |-> "throw", success |-> FALSE, enrollmentId |-> NoId,
         paymentUrl |-> NoId, error |-> e] : e \in {NULL, "", "Network down"}}

\* handlePaymentInitiateDone with the redirect before the write of the
\* pending record: the browser navigates even when the write throws
handlePaymentInitiateDone_NavigateFirst(f, res, written) ==
  /\ Loaded
  /\ f \in payFlows
  /\ f.pc = "initiate"
  /\ payFlows' = payFlows \ {f}
  /\ CASE res.kind = "throw" ->
            /\ errorMessage' = IF res.error # NULL THEN res.error
                               ELSE "Payment failed"
            /\ step' = "error"
            /\ UNCHANGED <<enrollmentId, timers, outVars>>
       [] res.kind = "result" /\ ~res.success ->
            /\ errorMessage' = IF res.error \notin {NULL, ""} THEN res.error
                               ELSE "Payment initialization failed"
            /\ step' = "error"
            /\ UNCHANGED <<enrollmentId, timers, outVars>>
       [] res.kind = "result" /\ res.success /\ res.paymentUrl = NoId ->
            /\ enrollmentId' = res.enrollmentId
            /\ step' = "success"
            /\ timers' = timers \cup {[id |-> f.id, session |-> f.session]}
            /\ UNCHANGED <<errorMessage, outVars>>
       [] res.kind = "result" /\ res.success /\ res.paymentUrl # NoId ->
            /\ enrollmentId' = res.enrollmentId
            /\ locationHref' = res.paymentUrl
            /\ IF written
                 THEN /\ pendingEnrollment' =
                           <<[enrollmentId |-> res.enrollmentId,
                              courseId |-> f.courseId, userId |-> f.userId,
                              paymentMethod |-> f.paymentMethod]>>
                      /\ UNCHANGED <<errorMessage, step>>
                 ELSE /\ errorMessage' = "QuotaExceededError"
                      /\ step' = "error"
                      /\ UNCHANGED pendingEnrollment
            /\ UNCHANGED timers
  /\ closeRequested' = FALSE
  /\ UNCHANGED <<propVars, formData, coursePrice, paymentMethod, promoVars,
                 finalPrice, priceFetches, promoCalls, nextPay>>

\* handlePayment after initiateEnrollment of flow f answered res.  written
\* says whether sessionStorage.setItem succeeds; when it throws the catch
\* block runs and the assignment of window.location.href is never reached.
handlePaymentInitiateDone(f, res, written) ==
  /\ Loaded
  /\ f \in payFlows
  /\ f.pc = "initiate"
  /\ payFlows' = payFlows \ {f}
  /\ CASE res.kind = "throw" ->
            /\ errorMessage' = IF res.error # NULL THEN res.error
                               ELSE "Payment failed"
            /\ step' = "error"
            /\ UNCHANGED <<enrollmentId, timers, outVars>>
       [] res.kind = "result" /\ ~res.success ->
            /\ errorMessage' = IF res.error \notin {NULL, ""} THEN res.error
                               ELSE "Payment initialization failed"
            /\ step' = "error"
            /\ UNCHANGED <<enrollmentId, timers, outVars>>
       [] res.kind = "result" /\ res.success /\ res.paymentUrl = NoId ->
            /\ enrollmentId' = res.enrollmentId
            /\ step' = "success"
            /\ timers' = timers \cup {[id |-> f.id, session |-> f.session]}
            /\ UNCHANGED <<errorMessage, outVars>>
       [] res.kind = "result" /\ res.success /\ res.paymentUrl # NoId ->
            /\ enrollmentId' = res.enrollmentId
            /\ IF written
                 THEN /\ pendingEnrollment' =
                           <<[enrollmentId |-> res.enrollmentId,
                              courseId |-> f.courseId, userId |-> f.userId,
                              paymentMethod |-> f.paymentMethod]>>
                      /\ locationHref' = res.paymentUrl
                      /\ UNCHANGED <<errorMessage, step>>
                 ELSE /\ errorMessage' = "QuotaExceededError"
                      /\ step' = "error"
                      /\ UNCHANGED outVars
            /\ UNCHANGED timers
  /\ closeRequested' = FALSE
  /\ UNCHANGED <<propVars, formData, coursePrice, paymentMethod, promoVars,
                 finalPrice, priceFetches, promoCalls, nextPay>>

\* the success timer of a flow fires: onEnrollmentComplete(); onClose()
successTimeout(t) ==
  /\ Loaded
  /\ t \in timers
  /\ timers' = timers \ {t}
  /\ onClose
  /\ closeRequested' = FALSE
  /\ UNCHANGED <<course, user, session, stateVars, priceFetches, promoCalls,
                 payFlows, nextPay, outVars>>

\* handleClose with a reset that keeps the terms checkbox
handleClose_KeepTerms ==
  /\ Loaded
  /\ isOpen
  /\ IF step # "processing"
       THEN /\ step' = "details"
            /\ formData' = [DefaultFormData(user) EXCEPT
                              !.acceptTerms = formData.acceptTerms]
            /\ errorMessage' = NULL
            /\ enrollmentId' = NoId
            /\ onClose
       ELSE UNCHANGED <<step, formData, errorMessage, enrollmentId, isOpen>>
  /\ closeRequested' = TRUE
  /\ UNCHANGED <<course, user, session, coursePrice, paymentMethod, promoVars,
                 finalPrice, asyncVars, outVars>>

\* handleClose without its check of the step
handleClose_NoGuard ==
  /\ Loaded
  /\ isOpen
  /\ step' = "details"
  /\ formData' = DefaultFormData(user)
  /\ errorMessage' = NULL
  /\ enrollmentId' = NoId
  /\ onClose
  /\ closeRequested' = TRUE
  /\ UNCHANGED <<course, user, session, coursePrice, paymentMethod, promoVars,
                 finalPrice, asyncVars, outVars>>

\* handleClose: the X button of the header and the Close button of the error
\* step.  The handler checks the step itself.
handleClose ==
  /\ Loaded
  /\ isOpen
  /\ IF step # "processing"
       THEN /\ step' = "details"
            /\ formData' = DefaultFormData(user)
            /\ errorMessage' = NULL
            /\ enrollmentId' = NoId
            /\ onClose
       ELSE UNCHANGED <<step, formData, errorMessage, enrollmentId, isOpen>>
  /\ closeRequested' = TRUE
  /\ UNCHANGED <<course, user, session, coursePrice, paymentMethod, promoVars,
                 finalPrice, asyncVars, outVars>>

\* the Back button of step payment
Back ==
  /\ Loaded
  /\ isOpen
  /\ step = "payment"
  /\ step' = "details"
  /\ closeRequested' = FALSE
  /\ UNCHANGED <<propVars, formData, coursePrice, paymentMethod, errorMessage,
                 enrollmentId, promoVars, finalPrice, asyncVars, outVars>>

\* the Try Again button of step error
TryAgain ==
  /\ Loaded
  /\ isOpen
  /\ step = "error"
  /\ step' = "details"
  /\ closeRequested' = FALSE
  /\ UNCHANGED <<propVars, formData, coursePrice, paymentMethod, errorMessage,
                 enrollmentId, promoVars, finalPrice, asyncVars, outVars>>

\* the payment method radio buttons, shown in step payment of a paid course
setPaymentMethod(m) ==
  /\ Loaded
  /\ isOpen
  /\ step = "payment"
  /\ coursePrice > 0
  /\ paymentMethod # m
  /\ paymentMethod' = m
  /\ closeRequested' = FALSE
  /\ UNCHANGED <<propVars, step, formData, coursePrice, errorMessage,
                 enrollmentId, promoVars, finalPrice, asyncVars, outVars>>

\* ---- inputs ----
Strings == {"", " ", "Ann"}
PromoInputs == {"", "a", "B"}
\* every edit of one field
AllEdits == {<<n, v>> : n \in {"firstName", "lastName", "email", "phoneNumber"},
                        v \in Strings}
            \cup {<<"acceptTerms", b>> : b \in BOOLEAN}
\* the edits that take the default form of a signed-in user to a valid one
FillEdits == {<<"phoneNumber", "07">>, <<"acceptTerms", TRUE>>}

\* the parent, the catalog and the close buttons
SessionNext ==
  \/ \E c \in Courses : Open(c)
  \/ \E q \in priceFetches, r \in {"data", "error", "throw"} :
       FetchCoursePriceDone(q, r)
  \/ handleClose

\* the promo code widget
PromoNext ==
  \/ \E v \in PromoInputs : promoCodeOnChange(v)
  \/ handleValidatePromo
  \/ \E call \in promoCalls : \E result \in PromoResults(call) :
       handleValidatePromoDone(call, result)

\* the workflow from submit to success, failure or redirect
PaymentNext ==
  \/ handleProceedToPayment
  \/ PayNow
  \/ \E f \in payFlows, r \in ProbeResults : handlePaymentProbeDone(f, r)
  \/ \E f \in payFlows : \E res \in InitiateResults(f), written \in BOOLEAN :
       handlePaymentInitiateDone(f, res, written)
  \/ \E t \in timers : successTimeout(t)
  \/ Back
  \/ TryAgain
  \/ \E m \in {"eversend", "flutterwave"} : setPaymentMethod(m)

\* the parent shows the modal for the first time
FirstOpen(c) == session = 0 /\ Open(c)

\* the whole component
Next ==
  \/ SessionNext
  \/ \E e \in AllEdits : handleInputChange(e[1], e[2])
  \/ PromoNext
  \/ PaymentNext

Spec == Init /\ [][Next]_vars

\* pricing: sessions and the promo widget
NextPricing == SessionNext \/ PromoNext

SpecPricing == Init /\ [][NextPricing]_vars

\* workflow: sessions, filling in the form, and the payment path
NextWorkflow ==
  \/ SessionNext
  \/ \E e \in FillEdits : handleInputChange(e[1], e[2])
  \/ PaymentNext

SpecWorkflow == Init /\ [][NextWorkflow]_vars

\* one session of the workflow: the modal is opened once, for either course,
\* and is not opened again after its close
NextOneSession ==
  \/ \E c \in Courses : FirstOpen(c)
  \/ \E q \in priceFetches, r \in {"data", "error", "throw"} :
       FetchCoursePriceDone(q, r)
  \/ handleClose
  \/ \E e \in FillEdits : handleInputChange(e[1], e[2])
  \/ PaymentNext

SpecOneSession == Init /\ [][NextOneSession]_vars

\* form: one session with every edit of the form and its submission
NextForm ==
  \/ \E c \in Courses : FirstOpen(c)
  \/ \E q \in priceFetches, r \in {"data", "error", "throw"} :
       FetchCoursePriceDone(q, r)
  \/ handleClose
  \/ \E e \in AllEdits : handleInputChange(e[1], e[2])
  \/ handleProceedToPayment
  \/ Back

SpecForm == Init /\ [][NextForm]_vars

\* reopening: sessions with every edit of the form and the payment path of
\* the first payment attempt
NextReopen ==
  \/ SessionNext
  \/ \E e \in AllEdits : handleInputChange(e[1], e[2])
  \/ nextPay = 1 /\ handleProceedToPayment
  \/ nextPay = 1 /\ PayNow
  \/ \E f \in payFlows, r \in ProbeResults : handlePaymentProbeDone(f, r)
  \/ \E f \in payFlows : \E res \in InitiateResults(f), written \in BOOLEAN :
       handlePaymentInitiateDone(f, res, written)
  \/ \E t \in timers : successTimeout(t)
  \/ Back
  \/ TryAgain

SpecReopen == Init /\ [][NextReopen]_vars

\* ---- claims ----

\* C1 (promo staleness): when the result of a validation arrives whose code
\* is no longer the value of the promo field, finalPrice, promoDiscount and
\* promoError stay as the edit left them.
C1_PromoStaleness ==
  [][\A call \in promoCalls : \A result \in PromoResults(call) :
       (handleValidatePromoDone(call, result) /\ call.code # promoCode)
         => UNCHANGED <<finalPrice, promoDiscount, promoError>>]_vars

\* C2 (pricing invariant): in every reachable state finalPrice <= coursePrice,
\* and finalPrice = coursePrice whenever no discount is applied.
C2_PricingInvariant ==
  /\ finalPrice <= coursePrice
  /\ promoDiscount = <<>> => finalPrice = coursePrice

\* C3: the amount passed to initiateEnrollment is the finalPrice the session
\* holds at the moment of the call.
C3_AmountIsFinalPrice ==
  [][\A f \in payFlows : \A r \in ProbeResults \ {"PGRST116"} :
       handlePaymentProbeDone(f, r) => f.finalPrice = finalPrice]_vars

\* C4 (no double submission): at most one payment-initiation flow is in
\* flight at any time.
C4_NoDoubleSubmission == Cardinality(payFlows) <= 1

\* C5 (setup-required short-circuit): when the probe of a payment attempt
\* reports not found, the step becomes error with the setup-required message
\* and the attempt is over without a call of initiateEnrollment; attempts
\* get fresh ids, so it never calls it later either.
C5_SetupRequiredShortCircuit ==
  /\ [](\A f \in payFlows : f.id < nextPay)
  /\ [][\A f \in payFlows \ payFlows' : handlePaymentProbeDone(f, "PGRST116") =>
          /\ step' = "error"
          /\ errorMessage' = SetupRequiredMessage
          /\ \A g \in payFlows' : g.id # f.id
          /\ nextPay' = nextPay]_vars

C5_Witness ==
  /\ step = "error"
  /\ errorMessage = SetupRequiredMessage
  /\ payFlows = {}
  /\ nextPay = 2

\* C6 (redirect hand-off): the browser is only ever navigated by a step in
\* which initiateEnrollment succeeded with that payment URL and the pending
\* record of that result (its enrollmentId, the course id, the user id and
\* the payment method of the attempt) was written; after a navigation the
\* record is present.
C6_RedirectHandOff ==
  /\ [](locationHref # NoId => pendingEnrollment # <<>>)
  /\ [][locationHref' # locationHref =>
          \E f \in payFlows : \E res \in InitiateResults(f) :
            /\ f.pc = "initiate"
            /\ res.kind = "result" /\ res.success
            /\ res.paymentUrl = locationHref'
            /\ enrollmentId' = res.enrollmentId
            /\ pendingEnrollment' =
                 <<[enrollmentId |-> res.enrollmentId, courseId |-> f.courseId,
                    userId |-> f.userId, paymentMethod |-> f.paymentMethod]>>]_vars

C6_Witness ==
  /\ locationHref # NoId
  /\ pendingEnrollment # <<>>
  /\ pendingEnrollment[1].enrollmentId = locationHref
  /\ pendingEnrollment[1].paymentMethod = "flutterwave"

\* C7: onEnrollmentComplete is only invoked while the session that reached
\* Success is still open, never after its close or in a later session.
C7_CompleteBeforeClose ==
  [][\A t \in timers : successTimeout(t) => isOpen /\ session = t.session]_vars

\* C8 (close gating): a close request in step processing changes nothing and
\* does not invoke onClose; in any other step it invokes onClose, resets the
\* form to its defaults and returns the step to details.
C8_CloseGating ==
  [][closeRequested' =>
       /\ isOpen
       /\ IF step = "processing"
            THEN UNCHANGED <<step, formData, errorMessage, enrollmentId, isOpen>>
            ELSE /\ ~isOpen'
                 /\ step' = "details"
                 /\ formData' = DefaultFormData(user)
                 /\ formData'.phoneNumber = "" /\ ~formData'.acceptTerms]_vars

C8_Witness ==
  /\ closeRequested
  /\ step = "processing"
  /\ isOpen
  /\ formData.acceptTerms

\* C9 (free-course fast path): while the base price is 0 the step never
\* becomes payment; the submit of a valid form at base price 0 starts the
\* payment attempt from details, a passing probe takes the step to
\* processing and a success without payment URL takes it to success.
C9_FreeCourseFastPath ==
  [][/\ (coursePrice = 0 /\ step # "payment") => step' # "payment"
     /\ (/\ coursePrice = 0
         /\ user # NULL
         /\ validateForm(formData, coursePrice) = NULL
         /\ handleProceedToPayment)
          => /\ step' = "details"
             /\ \E f \in payFlows' \ payFlows :
                  f.pc = "probe" /\ f.finalPrice = finalPrice
     /\ \A f \in payFlows \ payFlows' :
          /\ (f.pc = "probe" /\ \E r \in ProbeResults \ {"PGRST116"} :
                                  handlePaymentProbeDone(f, r))
               => /\ step' = "processing"
                  /\ \E g \in payFlows' : g.id = f.id /\ g.pc = "initiate"
          /\ (f.pc = "initiate" /\ \E res \in InitiateResults(f) :
                /\ res.kind = "result" /\ res.success /\ res.paymentUrl = NoId
                /\ handlePaymentInitiateDone(f, res, TRUE))
               => step' = "success"]_vars

C9_Witness ==
  /\ step = "success"
  /\ session = 1
  /\ course = "c2"
  /\ coursePrice = 0
  /\ nextPay = 2
  /\ payFlows = {}

\* C10 (form validation): validateForm answers the first failing rule of the
\* list firstName non-empty, email non-empty, phoneNumber non-empty when the
\* base price is positive, acceptTerms true; a submit never changes the form
\* fields, and a failed submit shows that message, stays in details and
\* starts no payment attempt.
C10_FormValidation ==
  /\ [](LET Blank == {"", " "}
            Rules == <<[ok |-> formData.firstName \notin Blank,
                        msg |-> "First name is required"],
                       [ok |-> formData.email \notin Blank,
                        msg |-> "Email is required"],
                       [ok |-> coursePrice > 0 => formData.phoneNumber \notin Blank,
                        msg |-> "Phone number is required for paid courses"],
                       [ok |-> formData.acceptTerms,
                        msg |-> "You must accept the terms and conditions"]>>
            Failing == {i \in 1 .. 4 : ~Rules[i].ok}
            First == CHOOSE i \in Failing : \A j \in Failing : i <= j
        IN  /\ validateForm(formData, coursePrice) =
                 IF Failing = {} THEN NULL ELSE Rules[First].msg
            /\ (Failing \subseteq {3} /\ formData.phoneNumber = "") =>
                 IF coursePrice = 0
                   THEN validateForm(formData, coursePrice) = NULL
                   ELSE validateForm(formData, coursePrice) =
                          "Phone number is required for paid courses")
  /\ [][handleProceedToPayment =>
          /\ formData' = formData
          /\ validateForm(formData, coursePrice) # NULL =>
               /\ errorMessage' = validateForm(formData, coursePrice)
               /\ step' = "details"
               /\ UNCHANGED <<payFlows, nextPay>>]_vars

C10_Witness ==
  /\ errorMessage = "Phone number is required for paid courses"
  /\ step = "details"
  /\ coursePrice > 0
  /\ formData.phoneNumber = " "
  /\ formData.acceptTerms
  /\ payFlows = {}

\* C11: the result of a promo validation that arrives while the modal is
\* closed (the session it was started in is over) changes none of finalPrice,
\* promoDiscount and promoError, so the next session does not inherit them.
C11_LatePromoResultNoOp ==
  [][\A call \in promoCalls : \A result \in PromoResults(call) :
       (handleValidatePromoDone(call, result) /\ ~isOpen)
         => UNCHANGED <<finalPrice, promoDiscount, promoError>>]_vars

\* C12 (idempotent reset): whatever the form held and whatever step other
\* than processing the modal was in, after a close request and the reopening
\* the form is the default one (first name, last name and email of the
\* profile, empty phone number, terms not accepted); a close request on the
\* default form leaves it as it is, so a second close and reopen gives the
\* identical form.
C12_IdempotentReset ==
  [][LET Default == IF user = NULL
                      THEN [firstName |-> "", lastName |-> "", email |-> "",
                            phoneNumber |-> "", acceptTerms |-> FALSE]
                      ELSE [firstName |-> "Ann", lastName |-> "Lee",
                            email |-> "a@x", phoneNumber |-> "",
                            acceptTerms |-> FALSE]
     IN  /\ (closeRequested' /\ step # "processing") => formData' = Default
         /\ (closeRequested /\ ~isOpen /\ isOpen') => formData' = Default
         /\ (closeRequested' /\ formData = Default) => formData' = formData]_vars

C12_Witness ==
  /\ session = 2
  /\ closeRequested
  /\ ~isOpen
  /\ formData = DefaultFormData(user)
  /\ user # NULL
  /\ nextPay = 2

\* C13 (not authenticated): a payment attempt without a signed-in user (the
\* submit of a valid form at base price 0, or Pay Now) calls neither the
\* probe nor initiateEnrollment and takes the step to error with the
\* not-authenticated message.
C13_NotAuthenticated ==
  [][(/\ user = NULL
      /\ \/ PayNow
         \/ /\ coursePrice = 0
            /\ validateForm(formData, coursePrice) = NULL
            /\ handleProceedToPayment)
       => /\ UNCHANGED <<payFlows, nextPay>>
          /\ errorMessage' = "User not authenticated"
          /\ step' = "error"]_vars

\* C14 (fail-open pricing): when the price fetch of the course the modal is
\* open for fails, by an error of the query or by an exception, the base
\* price and the final price are 0 once it has completed.
C14_FailOpenPricing ==
  [][\A q \in priceFetches : \A r \in {"error", "throw"} :
       (/\ isOpen
        /\ q.session = session
        /\ q.courseId = course
        /\ FetchCoursePriceDone(q, r))
         => coursePrice' = 0 /\ finalPrice' = 0]_vars

\* C15: an edit of the promo code field, whatever the promo state before it,
\* leaves promoDiscount null, promoError null and finalPrice equal to
\* coursePrice, stores the upper-cased input as the code and changes neither
\* the step, the form fields nor coursePrice.
C15_PromoEditResets ==
  [][\A v \in PromoInputs : promoCodeOnChange(v) =>
       /\ promoDiscount' = <<>>
       /\ promoError' = NULL
       /\ finalPrice' = coursePrice'
       /\ promoCode' = (CASE v = "a" -> "A" [] v = "B" -> "B" [] v = "" -> "")
       /\ UNCHANGED <<step, formData, coursePrice, errorMessage,
                      enrollmentId, paymentMethod>>]_vars

C15_Witness ==
  /\ promoCode = "A"
  /\ promoCalls # {}
  /\ \A call \in promoCalls : call.code = "B"
  /\ promoValidating
  /\ coursePrice > 0
  /\ promoDiscount = <<>>
  /\ promoError = NULL
  /\ finalPrice = coursePrice

\* C16: Try Again in step error returns the step to details with the error
\* message of the failed attempt cleared and enrollmentId null.
C16_RetryClearsPaymentState ==
  [][TryAgain => /\ step' = "details"
                 /\ errorMessage' = NULL
                 /\ enrollmentId' = NoId]_vars

\* C17: when the validatePromoCode call itself rejects, the code is treated
\* as invalid: promoError is set, promoDiscount is null, finalPrice equals
\* coursePrice and promoValidating is false again.
C17_PromoRejectIsInvalid ==
  [][\A call \in promoCalls : \A result \in PromoResults(call) :
       (result.kind = "reject" /\ handleValidatePromoDone(call, result))
         => /\ promoError' # NULL
            /\ promoDiscount' = <<>>
            /\ finalPrice' = coursePrice'
            /\ ~promoValidating']_vars

\* C18: every change of the step is a transition of the specified state
\* machine (submit, back, pay, the outcomes of processing, retry, and the
\* reset to details of a close); in particular error is entered only from
\* processing and processing only from details or payment.
C18_StepTransitions ==
  [][step' # step =>
       <<step, step'>> \in
         {<<"details", "payment">>, <<"details", "processing">>,
          <<"payment", "details">>, <<"payment", "processing">>,
          <<"processing", "success">>, <<"processing", "error">>,
          <<"error", "details">>, <<"success", "details">>}]_vars

\* C19: no failure of the payment path is swallowed.  An initiateEnrollment
\* that fails or throws takes the step to error with a non-empty error
\* message, and a payment attempt that fails before the probe (no signed-in
\* user) does not leave the step in details or payment.
C19_FailuresReachFailed ==
  [][/\ \A f \in payFlows \ payFlows' : \A res \in InitiateResults(f) :
          (/\ res.kind = "throw" \/ ~res.success
           /\ \E written \in BOOLEAN : handlePaymentInitiateDone(f, res, written))
            => step' = "error" /\ errorMessage' \notin {NULL, ""}
     /\ (errorMessage' = "User not authenticated"
          /\ errorMessage # "User not authenticated") => step' = "error"]_vars

\* C20: when the preflight probe of a payment attempt returns after the
\* session of the attempt was closed, the attempt ends there: it does not
\* go on to call initiateEnrollment and the step does not change.
C20_NoPaymentAfterClose ==
  [][\A f \in payFlows \ payFlows' : \A r \in ProbeResults :
       (/\ f.pc = "probe"
        /\ ~isOpen \/ f.session # session
        /\ handlePaymentProbeDone(f, r))
         => /\ UNCHANGED step
            /\ \A g \in payFlows' : g.id # f.id]_vars

\* C21: onClose is invoked once per termination of a session: a close
\* request that closes does so on an open modal, and the success timer only
\* invokes onClose while the session that scheduled it is the open one, not
\* after that session was closed by hand and not in a later session.
C21_OnCloseOncePerSession ==
  [][/\ (closeRequested' /\ ~isOpen') => isOpen
     /\ \A t \in timers \ timers' :
          (~isOpen' /\ UNCHANGED <<step, payFlows>>)
            => isOpen /\ t.session = session]_vars

\* C22: every session starts in details with the default form, whatever
\* ended the session before it: when the modal is opened the step is
\* details, errorMessage and enrollmentId are null and the form is the
\* default one.
C22_SessionStartsInDetails ==
  [][(~isOpen /\ isOpen') =>
       /\ step' = "details"
       /\ errorMessage' = NULL
       /\ enrollmentId' = NoId
       /\ formData' = DefaultFormData(user)]_vars

====
